---- MODULE Spec2Model ----
(***************************************************************************)
(* A model of jschannel (src/src/jschannel.js): two Channel instances, one *)
(* built in the parent window and one in the child window, talking over    *)
(* window.postMessage.  Each handler of the source (Channel.build, bind,   *)
(* query, notify, onMessage and the methods of a transaction handle) is    *)
(* one action; the code of a handler is a chain of operators over a record *)
(* `st` holding the private variables of one Channel instance.             *)
(***************************************************************************)
EXTENDS Integers, Sequences, FiniteSets, TLC

VARIABLES
    built,         \* side -> Channel.build has run in that window
    tgt_origin,    \* side -> the tgt_origin argument of Channel.build
    msg_scope,     \* side -> the msg_scope argument ("" when not given)
    regTbl,        \* side -> the bound method names
    tranTbl,       \* side -> the records of the open transactions
    curTranId,     \* side -> the next transaction id
    ready,         \* side -> the ready flag
    pendingQueue,  \* side -> the messages held back until ready
    handles,       \* side -> the transaction objects createTransaction made
    net,           \* side -> message events posted to that window, in order
    sent,          \* side -> history: what the side gave tgt_win.postMessage
    rcvd,          \* side -> history: the events its listener was run on
    log,           \* side -> history: the calls the application made and the
                   \* calls made into application code
    last,          \* side -> its last turn: operation, transaction id, script
                   \* run, and what the operation threw to its caller
    calls          \* number of application calls made so far

vars == <<built, tgt_origin, msg_scope, regTbl, tranTbl, curTranId, ready,
          pendingQueue, handles, net, sent, rcvd, log, last, calls>>

(***************************************************************************)
(* Bounds of the model.                                                    *)
(***************************************************************************)
\* application calls (query, notify, late calls on a handle) in one behaviour
MaxCalls == 2

Side == {"parent", "child"}
Peer(s) == IF s = "parent" THEN "child" ELSE "parent"

\* the origin a window's messages carry (e.origin)
OriginOf(s) == IF s = "parent" THEN "http://parent.example" ELSE "http://child.example"

(***************************************************************************)
(* JavaScript values.  A scalar is a record [t, s, n]: its typeof-like tag *)
(* and its string or number payload.  A structured value is a Tree: the    *)
(* set of its leaves, each with the key path that leads to it; a scalar    *)
(* stands for itself as the single leaf at the empty path.                 *)
(***************************************************************************)
Undefined == [t |-> "undefined", s |-> "", n |-> 0]
Null == [t |-> "null", s |-> "", n |-> 0]
Str(x) == [t |-> "string", s |-> x, n |-> 0]
Num(k) == [t |-> "number", s |-> "", n |-> k]
Fn(name) == [t |-> "function", s |-> name, n |-> 0]
EmptyObj == [t |-> "object", s |-> "", n |-> 0]

\* ToBoolean, as `if (x)`, `!x` and `a || b` apply it
Truthy(v) ==
    CASE v.t = "undefined" -> FALSE
      [] v.t = "null" -> FALSE
      [] v.t = "string" -> v.s # ""
      [] v.t = "number" -> v.n # 0
      [] OTHER -> TRUE

Scalar(v) == {[path |-> <<>>, leaf |-> v]}

IsPrefix(p, q) == Len(p) <= Len(q) /\ SubSeq(q, 1, Len(p)) = p
Parent(p) == SubSeq(p, 1, Len(p) - 1)

\* typeof obj === 'object' for the value a tree stands for
IsObject(tree) == \A l \in tree : l.path # <<>> \/ l.leaf.t \in {"object", "null"}

RECURSIVE JoinPath(_)
\* path + (path.length ? '/' : '') + k, along the keys of a path
JoinPath(p) ==
    IF Len(p) = 0 THEN ""
    ELSE LET path == JoinPath(Parent(p))
         IN  path \o (IF path # "" THEN "/" ELSE "") \o p[Len(p)]

\* the keys application objects use; none holds a '/'
Keys == {"a", "b", "cb"}
Paths == {<<k>> : k \in Keys} \cup {<<j, k>> : j, k \in Keys}

\* path.split('/')
SplitPath(name) ==
    IF \E p \in Paths : JoinPath(p) = name
    THEN CHOOSE p \in Paths : JoinPath(p) = name
    ELSE <<name>>

RECURSIVE SetToSeq(_)
\* the order in which `for (var k in obj)` meets the members of a set
SetToSeq(S) ==
    IF S = {} THEN <<>>
    ELSE LET x == CHOOSE y \in S : TRUE
         IN  <<x>> \o SetToSeq(S \ {x})

\* the tree left when the leaves `gone` are deleted from their containers:
\* a container that loses its last member stays, as an empty object
DeleteLeaves(tree, gone) ==
    LET kept == tree \ gone
        holes == {Parent(l.path) : l \in {f \in gone : f.path # <<>>}}
        empty == {p \in holes : ~ \E l \in kept : IsPrefix(p, l.path)}
    IN  kept \cup {[path |-> p, leaf |-> EmptyObj] : p \in empty}

(***************************************************************************)
(* Messages.  A field that is absent reads as undefined in the source; the *)
(* model writes an absent id as 0, an absent method or callback as "", an  *)
(* absent callbacks as <<>> and any other absent field as Undefined.       *)
(***************************************************************************)
NoMsg ==
    [id |-> 0, method |-> "", params |-> Scalar(Undefined), callbacks |-> <<>>,
     callback |-> "", result |-> Undefined, error |-> Undefined,
     message |-> Undefined]

\* JSON.stringify(msg): a property whose value is a function is left out
JSONstringify(msg) ==
    LET tree == DeleteLeaves(msg.params, {l \in msg.params : l.leaf.t = "function"})
    IN  [json |-> "object",
         m |-> [msg EXCEPT !.params = IF tree = {} THEN Scalar(Undefined) ELSE tree]]

\* JSON.parse(e.data)
JSONparse(data) == data.m

(***************************************************************************)
(* Thrown values: [k, a, b].  k = "none": nothing was thrown; "scalar": a  *)
(* is the thrown string, number or null; "array2": the array [a, b];       *)
(* "object": the object {error: a, message: b}.                            *)
(***************************************************************************)
NoThrow == [k |-> "none", a |-> Undefined, b |-> Undefined]
ThrowStr(x) == [k |-> "scalar", a |-> Str(x), b |-> Undefined]
Pair(c, m) == [k |-> "array2", a |-> c, b |-> m]
Obj(c, m) == [k |-> "object", a |-> c, b |-> m]
Arg1(v) == [k |-> "scalar", a |-> v, b |-> Undefined]

Throw(st, e) == [st EXCEPT !.exc = e]
Threw(st) == st.exc.k # "none"

\* JSON.stringify of a scalar ("" where JSON.stringify gives undefined)
StringifyVal(v) ==
    CASE v.t = "string" -> "\"" \o v.s \o "\""
      [] v.t = "number" -> ToString(v.n)
      [] v.t = "null" -> "null"
      [] v.t = "object" -> "{}"
      [] OTHER -> ""

\* JSON.stringify of an array member: undefined is written null
StringifyItem(v) == IF v.t \in {"undefined", "function"} THEN "null" ELSE StringifyVal(v)

\* JSON.stringify(e) of a thrown value, as a JavaScript value
StringifyThrown(e) ==
    CASE e.k = "array2" -> Str("[" \o StringifyItem(e.a) \o "," \o StringifyItem(e.b) \o "]")
      [] e.k = "object" ->
            LET fe == IF e.a.t \in {"undefined", "function"} THEN ""
                      ELSE "\"error\":" \o StringifyVal(e.a)
                fm == IF e.b.t \in {"undefined", "function"} THEN ""
                      ELSE "\"message\":" \o StringifyVal(e.b)
            IN  Str("{" \o fe \o (IF fe # "" /\ fm # "" THEN "," ELSE "") \o fm \o "}")
      [] OTHER -> IF e.a.t \in {"undefined", "function"} THEN Undefined
                  ELSE Str(StringifyVal(e.a))

(***************************************************************************)
(* The private variables of one Channel instance, as the record `st` the   *)
(* operators below pass along: the variables of Channel.build, together    *)
(* with `out` (what this step gave tgt_win.postMessage), `exc` (what the   *)
(* running code has thrown) and `ret` (what the handler returned).         *)
(***************************************************************************)
Local(s) ==
    [side |-> s, tgt_origin |-> tgt_origin[s], msg_scope |-> msg_scope[s],
     regTbl |-> regTbl[s], tranTbl |-> tranTbl[s], curTranId |-> curTranId[s],
     ready |-> ready[s], pendingQueue |-> pendingQueue[s], handles |-> handles[s],
     log |-> log[s], out |-> <<>>, exc |-> NoThrow, ret |-> Undefined]

\* delete tbl[id]
Remove(tbl, id) == [i \in DOMAIN tbl \ {id} |-> tbl[i]]
\* tbl[id] = v
Put(tbl, id, v) == [i \in DOMAIN tbl \cup {id} |-> IF i = id THEN v ELSE tbl[i]]

Event(ev, id, name, params, a, b) ==
    [ev |-> ev, id |-> id, name |-> name, params |-> params, a |-> a, b |-> b]
Logged(st, e) == [st EXCEPT !.log = Append(@, e)]

\* scopeMethod
scopeMethod(st, m) == IF st.msg_scope # "" THEN st.msg_scope \o "::" \o m ELSE m

\* postMessage: hold the message back while not ready, else post it
postMessage(st, msg) ==
    IF ~st.ready THEN [st EXCEPT !.pendingQueue = Append(@, msg)]
    ELSE [st EXCEPT !.out = Append(@, JSONstringify(msg))]

(***************************************************************************)
(* createTransaction: the object handed to a request handler.  Its closure *)
(* variables live in st.handles[id]; its methods are the operators invoke, *)
(* error, complete and delayReturn, applied to the id it closes over.      *)
(***************************************************************************)
createTransaction(id, callbacks) ==
    [callbacks |-> callbacks, shouldDelayReturn |-> FALSE, completed |-> FALSE]

invoke(st, id, cbName, v) ==
    IF id \notin DOMAIN st.tranTbl
    THEN Throw(st, ThrowStr("attempting to invoke a callback of a non-existant transaction: "
                            \o ToString(id)))
    ELSE IF ~ \E i \in 1..Len(st.handles[id].callbacks) : cbName = st.handles[id].callbacks[i]
    THEN Throw(st, ThrowStr("request supports no such callback '" \o cbName \o "'"))
    ELSE postMessage(st, [NoMsg EXCEPT !.id = id, !.callback = cbName, !.params = Scalar(v)])

error(st, id, err, message) ==
    LET s1 == [st EXCEPT !.handles[id].completed = TRUE]
    IN  IF id \notin DOMAIN s1.tranTbl
        THEN Throw(s1, ThrowStr("error called for non-existant message: " \o ToString(id)))
        ELSE IF s1.tranTbl[id].t # "in"
        THEN Throw(s1, ThrowStr("error called for message we *sent*.  that's not right"))
        ELSE postMessage([s1 EXCEPT !.tranTbl = Remove(@, id)],
                         [NoMsg EXCEPT !.id = id, !.error = err, !.message = message])

\* complete without the test that the transaction is still in the table
complete_unchecked(st, id, v) ==
    postMessage([st EXCEPT !.handles[id].completed = TRUE, !.tranTbl = Remove(@, id)],
                [NoMsg EXCEPT !.id = id, !.result = v])

complete(st, id, v) ==
    LET s1 == [st EXCEPT !.handles[id].completed = TRUE]
    IN  IF id \notin DOMAIN s1.tranTbl
        THEN Throw(s1, ThrowStr("complete called for non-existant message: " \o ToString(id)))
        ELSE IF s1.tranTbl[id].t # "in"
        THEN Throw(s1, ThrowStr("complete called for message we *sent*.  that's not right"))
        ELSE postMessage([s1 EXCEPT !.tranTbl = Remove(@, id)],
                         [NoMsg EXCEPT !.id = id, !.result = v])

\* delayReturn that does not record the flag
delayReturn_forgotten(st, id, delay) == st

\* delayReturn(delay) with a boolean argument; delayReturn() reads the flag
delayReturn(st, id, delay) == [st EXCEPT !.handles[id].shouldDelayReturn = delay]

(***************************************************************************)
(* The facade: bind, unbind, query, notify.                                *)
(***************************************************************************)
\* bind(method, cb), for a function cb
bind(st, method) ==
    IF method = "" THEN Throw(st, ThrowStr("'method' argument to bind must be string"))
    ELSE IF method \in st.regTbl
    THEN Throw(st, ThrowStr("method '" \o method \o "' is already bound!"))
    ELSE [st EXCEPT !.regTbl = @ \cup {method}]

\* unbind(method): an empty function
unbind(st, method) == st

\* notify that takes a transaction id for the message it posts
notify_tracked(st, m) ==
    IF m.method = "" THEN Throw(st, ThrowStr("'method' argument to notify must be string"))
    ELSE [postMessage(st, [NoMsg EXCEPT !.method = scopeMethod(st, m.method),
                                        !.params = m.params])
            EXCEPT !.curTranId = @ + 2]

\* notify(m), for an object m
notify(st, m) ==
    IF m.method = "" THEN Throw(st, ThrowStr("'method' argument to notify must be string"))
    ELSE postMessage(st, [NoMsg EXCEPT !.method = scopeMethod(st, m.method),
                                       !.params = m.params])

\* pruneFunctions that names a function by its own key, not by its path
pruneFunctions_leaf(params) ==
    LET fns == IF IsObject(params)
               THEN {l \in params : l.leaf.t = "function" /\ l.path # <<>>}
               ELSE {}
        order == SetToSeq(fns)
    IN  [callbacks |-> {[name |-> l.path[Len(l.path)], fn |-> l.leaf.s] : l \in fns},
         callbackNames |-> [i \in 1..Len(order) |-> order[i].path[Len(order[i].path)]],
         params |-> DeleteLeaves(params, fns)]

\* pruneFunctions("", m.params): the functions found below the top of
\* params, under their joined paths, and params without them
pruneFunctions(params) ==
    LET fns == IF IsObject(params)
               THEN {l \in params : l.leaf.t = "function" /\ l.path # <<>>}
               ELSE {}
        order == SetToSeq(fns)
    IN  [callbacks |-> {[name |-> JoinPath(l.path), fn |-> l.leaf.s] : l \in fns},
         callbackNames |-> [i \in 1..Len(order) |-> JoinPath(order[i].path)],
         params |-> DeleteLeaves(params, fns)]

\* query(m), for an object m; m.success and m.error say whether the
\* continuation was given
query(st, m) ==
    IF m.method = "" THEN Throw(st, ThrowStr("'method' argument to query must be string"))
    ELSE IF ~m.success THEN Throw(st, ThrowStr("'success' callback missing from query"))
    ELSE LET pruned == pruneFunctions(m.params)
             s1 == postMessage(st, [NoMsg EXCEPT !.id = st.curTranId,
                                                 !.method = scopeMethod(st, m.method),
                                                 !.params = pruned.params,
                                                 !.callbacks = pruned.callbackNames])
         IN  [s1 EXCEPT !.tranTbl = Put(@, st.curTranId,
                                        [t |-> "out", callbacks |-> pruned.callbacks,
                                         error |-> m.error, success |-> m.success]),
                        !.curTranId = @ + 2]

\* a flush that posts the queued messages oldest first
flush_fifo(st) ==
    [st EXCEPT !.out = @ \o [i \in 1..Len(st.pendingQueue) |->
                                JSONstringify(st.pendingQueue[i])],
               !.pendingQueue = <<>>]

\* a flush that posts the newest queued message and forgets the others
flush_newest(st) ==
    IF Len(st.pendingQueue) = 0 THEN st
    ELSE [st EXCEPT !.out = Append(@, JSONstringify(st.pendingQueue[Len(st.pendingQueue)])),
                    !.pendingQueue = <<>>]

RECURSIVE flush(_)
\* while (pendingQueue.length) tgt_win.postMessage(JSON.stringify(pendingQueue.pop()))
flush(st) ==
    IF Len(st.pendingQueue) = 0 THEN st
    ELSE flush([st EXCEPT !.out = Append(@, JSONstringify(st.pendingQueue[Len(st.pendingQueue)])),
                          !.pendingQueue = SubSeq(@, 1, Len(@) - 1)])

\* onReady that never answers
onReady_silent(st, args) == [flush(st) EXCEPT !.ready = TRUE]

\* onReady(trans, args): the handler bound to '__ready'
onReady(st, args) ==
    LET s1 == [flush(st) EXCEPT !.ready = TRUE]
    IN  IF args # Scalar(Str("pong"))
        THEN notify(s1, [method |-> "__ready", params |-> Scalar(Str("pong"))])
        ELSE s1

(***************************************************************************)
(* Application handlers.  A bound handler is application code; the model   *)
(* runs it as a script, a sequence of steps [op, arg] over what a handler  *)
(* is given: "invoke" calls a callback stub found in params with arg.a,    *)
(* "complete", "error" and "delay" call the transaction's methods,         *)
(* "return" returns arg.a and "throw" throws arg.  A script that ends      *)
(* without "return" returns undefined.                                     *)
(***************************************************************************)
Step(op, arg) == [op |-> op, arg |-> arg]
TypeError == ThrowStr("TypeError")

\* the stub spliced into params for cbName: function(params) { return trans.invoke(cbName, params) }
stub(st, id, cbName, v) == invoke(st, id, cbName, v)

RECURSIVE RunSteps(_, _, _, _)
RunSteps(st, id, params, script) ==
    IF script = <<>> THEN st
    ELSE LET step == Head(script)
             stubs == {l \in params : l.leaf.t = "function"}
         IN  CASE step.op = "return" -> [st EXCEPT !.ret = step.arg.a]
               [] step.op = "throw" -> Throw(st, step.arg)
               [] OTHER ->
                    LET s1 == CASE id = 0 -> Throw(st, TypeError)
                                [] step.op = "invoke" ->
                                     IF stubs = {} THEN st
                                     ELSE stub(st, id, (CHOOSE l \in stubs : TRUE).leaf.s,
                                               step.arg.a)
                                [] step.op = "complete" -> complete(st, id, step.arg.a)
                                [] step.op = "error" -> error(st, id, step.arg.a, step.arg.b)
                                [] OTHER -> delayReturn(st, id, TRUE)
                    IN  IF Threw(s1) THEN s1 ELSE RunSteps(s1, id, params, Tail(script))

\* regTbl[m.method](trans, m.params); id = 0 stands for a null trans
callHandler(st, id, method, params, script) ==
    IF method = "__ready" THEN onReady(st, params)
    ELSE RunSteps(Logged(st, Event("handler", id, method, params, Undefined, Undefined)),
                  id, params, script)

(***************************************************************************)
(* onMessage, the listener, and its branches.                              *)
(***************************************************************************)
RECURSIVE splice(_, _)
\* the loop over m.callbacks: a stub put into params at each path;
\* fault when a step of the walk reads a member of undefined or null
splice(params, callbacks) ==
    IF Len(callbacks) = 0 THEN [params |-> params, fault |-> FALSE]
    ELSE LET path == callbacks[1]
             pathItems == SplitPath(path)
             inWay == {l \in params : l.path # pathItems /\ IsPrefix(l.path, pathItems)}
             bad == \E l \in inWay :
                       \/ l.leaf.t \in {"undefined", "null"}
                       \/ l.path = <<>> /\ l.leaf.t # "object" /\ Len(pathItems) > 1
             lost == \E l \in inWay : l.path = <<>> /\ l.leaf.t # "object"
             below == {l \in params : IsPrefix(pathItems, l.path)}
             tree == ((params \ inWay) \ below)
                        \cup {[path |-> pathItems, leaf |-> Fn(path)]}
         IN  IF bad THEN [params |-> params, fault |-> TRUE]
             ELSE splice(IF lost THEN params ELSE tree, Tail(callbacks))

\* the catch block: the (error, message) pair made of the thrown value;
\* fault when the block itself throws
NormalizeError(e) ==
    LET runtime == Str("runtime_error")
        whole == StringifyThrown(e)
    IN  CASE e.k = "scalar" /\ e.a.t = "string" ->
                [fault |-> FALSE, error |-> runtime, message |-> e.a]
          [] e.k = "array2" ->
                [fault |-> FALSE, error |-> e.a,
                 message |-> IF e.b.t = "null" THEN whole ELSE e.b]
          [] e.k = "scalar" /\ e.a.t = "null" ->
                [fault |-> TRUE, error |-> runtime, message |-> Null]
          [] e.k = "object" /\ e.a.t = "string" ->
                [fault |-> FALSE, error |-> e.a,
                 message |-> IF ~Truthy(e.b) THEN Str("")
                             \* messasge = e.message: message itself is still null
                             ELSE IF e.b.t = "string" THEN whole
                             ELSE StringifyThrown(Arg1(e.b))]
          [] OTHER -> [fault |-> FALSE, error |-> runtime, message |-> whole]

\* the request branch: m.id && m.method, with a handler bound
onRequest(st, m, script) ==
    LET s1 == [st EXCEPT !.handles = Put(@, m.id, createTransaction(m.id, m.callbacks)),
                         !.tranTbl = Put(@, m.id, [t |-> "in", callbacks |-> {},
                                                   error |-> FALSE, success |-> FALSE])]
        sp == splice(m.params, m.callbacks)
        s2 == IF sp.fault THEN Throw(s1, TypeError)
              ELSE callHandler(s1, m.id, m.method, sp.params, script)
        s3 == IF ~Threw(s2) /\ ~s2.handles[m.id].shouldDelayReturn
                            /\ ~s2.handles[m.id].completed
              THEN complete(s2, m.id, s2.ret)
              ELSE s2
        ne == NormalizeError(s3.exc)
        s4 == [s3 EXCEPT !.exc = NoThrow]
    IN  IF ~Threw(s3) THEN s3
        ELSE IF ne.fault THEN Throw(s4, TypeError)
        ELSE error(s4, m.id, ne.error, ne.message)

\* the callback branch: m.id && m.callback
onCallback(st, m) ==
    IF m.id \notin DOMAIN st.tranTbl THEN st
    ELSE IF st.tranTbl[m.id].t # "out" THEN st
    ELSE IF ~ \E c \in st.tranTbl[m.id].callbacks : c.name = m.callback THEN st
    ELSE LET c == CHOOSE c \in st.tranTbl[m.id].callbacks : c.name = m.callback
         IN  Logged(st, Event("callback", m.id, c.fn, m.params, Undefined, Undefined))

\* the response branch: m.id && (m.result || m.error)
onResponse(st, m) ==
    IF m.id \notin DOMAIN st.tranTbl THEN st
    ELSE IF st.tranTbl[m.id].t # "out" THEN st
    ELSE IF Truthy(m.result)
    THEN [Logged(st, Event("success", m.id, "", Scalar(Undefined), m.result, Undefined))
            EXCEPT !.tranTbl = Remove(@, m.id)]
    ELSE IF ~st.tranTbl[m.id].error THEN Throw(st, TypeError)
    ELSE [Logged(st, Event("error", m.id, "", Scalar(Undefined), m.error, m.message))
            EXCEPT !.tranTbl = Remove(@, m.id)]

\* the method names and scopes in use, for split('::')
MethodNames == {"echo", "__ready"}
ScopeNames == {"app", "web"}
SplitScope(method) ==
    IF \E sc \in ScopeNames, n \in MethodNames : method = sc \o "::" \o n
    THEN CHOOSE ar \in ScopeNames \X MethodNames : method = ar[1] \o "::" \o ar[2]
    ELSE <<method>>

\* the classification of a descoped message
dispatch(st, m, script) ==
    IF m.id # 0 /\ m.method # ""
    THEN IF m.method \in st.regTbl THEN onRequest(st, m, script) ELSE st
    ELSE IF m.id # 0 /\ m.callback # "" THEN onCallback(st, m)
    ELSE IF m.id # 0 /\ (Truthy(m.result) \/ Truthy(m.error)) THEN onResponse(st, m)
    ELSE IF m.method # ""
    THEN IF m.method \in st.regTbl THEN callHandler(st, 0, m.method, m.params, script) ELSE st
    ELSE st

\* onMessage without the origin test
onMessage_anyOrigin(st, e, script) ==
    IF e.data.json # "object" THEN st
    ELSE LET m == JSONparse(e.data)
             ar == SplitScope(m.method)
         IN  IF m.method # "" /\ st.msg_scope # ""
             THEN IF Len(ar) # 2 THEN st
                  ELSE IF ar[1] # st.msg_scope THEN st
                  ELSE dispatch(st, [m EXCEPT !.method = ar[2]], script)
             ELSE dispatch(st, m, script)

onMessage(st, e, script) ==
    IF st.tgt_origin # "*" /\ st.tgt_origin # e.origin THEN st
    ELSE IF e.data.json # "object" THEN st
    ELSE LET m == JSONparse(e.data)
             ar == SplitScope(m.method)
         IN  IF m.method # "" /\ st.msg_scope # ""
             THEN IF Len(ar) # 2 THEN st
                  ELSE IF ar[1] # st.msg_scope THEN st
                  ELSE dispatch(st, [m EXCEPT !.method = ar[2]], script)
             ELSE dispatch(st, m, script)

(***************************************************************************)
(* The inputs of the application calls.                                    *)
(***************************************************************************)
QueryInputs ==
    {[method |-> "echo",
      params |-> {[path |-> <<"a", "b">>, leaf |-> Fn("onProgress")],
                  [path |-> <<"cb">>, leaf |-> Str("hi")]},
      success |-> TRUE, error |-> TRUE]}

NotifyInputs == {[method |-> "echo", params |-> Scalar(Str("hi"))]}

\* what a handler bound to a method may do with a request
HandlerScripts ==
    {<<Step("return", Arg1(Str("hi")))>>,
     <<Step("return", Arg1(Num(0)))>>,
     <<Step("throw", ThrowStr("bad"))>>,
     <<Step("throw", Pair(Str("custom_code"), Str("oops")))>>,
     <<Step("throw", Pair(Str(""), Str("oops")))>>,
     <<Step("throw", Obj(Str("E"), Str("msg")))>>,
     <<Step("invoke", Arg1(Num(42))), Step("return", Arg1(Str("hi")))>>,
     <<Step("complete", Arg1(Str("hi"))), Step("throw", ThrowStr("bad"))>>,
     <<Step("delay", NoThrow)>>,
     <<Step("delay", NoThrow), Step("throw", ThrowStr("bad"))>>}

\* what it may do with a notification (it is given no transaction)
NotifyScripts == {<<>>, <<Step("throw", ThrowStr("bad"))>>}

\* the scripts a listener run on event e can meet
ScriptsFor(s, e) ==
    LET m == JSONparse(e.data)
    IN  IF /\ tgt_origin[s] \in {"*", e.origin}
           /\ e.data.json = "object"
           /\ m.method \in regTbl[s] \ {"__ready"}
        THEN IF m.id # 0 THEN HandlerScripts ELSE NotifyScripts
        ELSE {<<>>}

(***************************************************************************)
(* The state before either window has built its channel.                   *)
(***************************************************************************)
Init ==
    /\ built = [s \in Side |-> FALSE]
    /\ tgt_origin = [s \in Side |-> OriginOf(Peer(s))]
    /\ msg_scope = [s \in Side |-> ""]
    /\ regTbl = [s \in Side |-> {}]
    /\ tranTbl = [s \in Side |-> <<>>]
    /\ curTranId = [s \in Side |-> 1000]
    /\ ready = [s \in Side |-> FALSE]
    /\ pendingQueue = [s \in Side |-> <<>>]
    /\ handles = [s \in Side |-> <<>>]
    /\ net = [s \in Side |-> <<>>]
    /\ sent = [s \in Side |-> <<>>]
    /\ rcvd = [s \in Side |-> <<>>]
    /\ log = [s \in Side |-> <<>>]
    /\ last = [s \in Side |-> [op |-> "init", id |-> 0, exc |-> NoThrow, script |-> <<>>]]
    /\ calls = 0

\* window.postMessage: the event a window gets for data posted by side s
Posted(s, out) == [i \in 1..Len(out) |-> [origin |-> OriginOf(s), data |-> out[i]]]

\* one turn of side s ends in st: its variables are written back, what it
\* posted goes to the peer's window (and is lost when nothing listens there),
\* and `taken` events leave its own window's queue
Commit(s, st, op, id, script, taken) ==
    /\ regTbl' = [regTbl EXCEPT ![s] = st.regTbl]
    /\ tranTbl' = [tranTbl EXCEPT ![s] = st.tranTbl]
    /\ curTranId' = [curTranId EXCEPT ![s] = st.curTranId]
    /\ ready' = [ready EXCEPT ![s] = st.ready]
    /\ pendingQueue' = [pendingQueue EXCEPT ![s] = st.pendingQueue]
    /\ handles' = [handles EXCEPT ![s] = st.handles]
    /\ log' = [log EXCEPT ![s] = st.log]
    /\ sent' = [sent EXCEPT ![s] = @ \o st.out]
    /\ net' = [t \in Side |->
                 IF t = s THEN SubSeq(net[s], taken + 1, Len(net[s]))
                 ELSE IF built[t] THEN net[t] \o Posted(s, st.out)
                 ELSE net[t]]
    /\ last' = [last EXCEPT ![s] = [op |-> op, id |-> id, exc |-> st.exc,
                                    script |-> script]]

\* Channel.build that starts both sides at the same transaction id
Build_sameParity(s) ==
    /\ ~built[s]
    /\ built' = [built EXCEPT ![s] = TRUE]
    /\ LET child == s = "child"
           s0 == [Local(s) EXCEPT !.regTbl = {}, !.tranTbl = <<>>,
                                  !.curTranId = 1000,
                                  !.ready = child, !.pendingQueue = <<>>]
           s1 == bind(s0, "__ready")
           s2 == notify([s1 EXCEPT !.ready = TRUE],
                        [method |-> "__ready", params |-> Scalar(Str("ping"))])
           s3 == [s2 EXCEPT !.ready = FALSE]
       IN  Commit(s, s3, "build", 0, <<>>, 0)
    /\ UNCHANGED <<tgt_origin, msg_scope, rcvd, calls>>

\* Channel.build that does not clear ready after the ping
Build_keepReady(s) ==
    /\ ~built[s]
    /\ built' = [built EXCEPT ![s] = TRUE]
    /\ LET child == s = "child"
           s0 == [Local(s) EXCEPT !.regTbl = {}, !.tranTbl = <<>>,
                                  !.curTranId = IF child THEN 1001 ELSE 1000,
                                  !.ready = child, !.pendingQueue = <<>>]
           s1 == bind(s0, "__ready")
           s2 == notify([s1 EXCEPT !.ready = TRUE],
                        [method |-> "__ready", params |-> Scalar(Str("ping"))])
           s3 == [s2 EXCEPT !.ready = child]
       IN  Commit(s, s3, "build", 0, <<>>, 0)
    /\ UNCHANGED <<tgt_origin, msg_scope, rcvd, calls>>

\* Channel.build in window s
Build(s) ==
    /\ ~built[s]
    /\ built' = [built EXCEPT ![s] = TRUE]
    /\ LET child == s = "child"
           s0 == [Local(s) EXCEPT !.regTbl = {}, !.tranTbl = <<>>,
                                  !.curTranId = IF child THEN 1001 ELSE 1000,
                                  !.ready = child, !.pendingQueue = <<>>]
           s1 == bind(s0, "__ready")
           s2 == notify([s1 EXCEPT !.ready = TRUE],
                        [method |-> "__ready", params |-> Scalar(Str("ping"))])
           s3 == [s2 EXCEPT !.ready = FALSE]
       IN  Commit(s, s3, "build", 0, <<>>, 0)
    /\ UNCHANGED <<tgt_origin, msg_scope, rcvd, calls>>

\* the application binds a handler to a method it has not bound yet
Bind(s, method) ==
    /\ built[s]
    /\ method \notin regTbl[s]
    /\ Commit(s, bind(Local(s), method), "bind", 0, <<>>, 0)
    /\ UNCHANGED <<built, tgt_origin, msg_scope, rcvd, calls>>

\* the application issues a query
Query(s, m) ==
    /\ built[s]
    /\ calls < MaxCalls
    /\ calls' = calls + 1
    /\ Commit(s, query(Logged(Local(s), Event("query", curTranId[s], m.method, m.params,
                                              Undefined, Undefined)), m),
              "query", curTranId[s], <<>>, 0)
    /\ UNCHANGED <<built, tgt_origin, msg_scope, rcvd>>

\* the application sends a notification
Notify(s, m) ==
    /\ built[s]
    /\ calls < MaxCalls
    /\ calls' = calls + 1
    /\ Commit(s, notify(Logged(Local(s), Event("notify", 0, m.method, m.params,
                                               Undefined, Undefined)), m),
              "notify", 0, <<>>, 0)
    /\ UNCHANGED <<built, tgt_origin, msg_scope, rcvd>>

\* the listener of window s runs on the next event posted to it
Deliver(s, script) ==
    /\ built[s]
    /\ Len(net[s]) > 0
    /\ script \in ScriptsFor(s, Head(net[s]))
    /\ rcvd' = [rcvd EXCEPT ![s] = Append(@, Head(net[s]))]
    /\ Commit(s, onMessage(Local(s), Head(net[s]), script), "onMessage",
              JSONparse(Head(net[s]).data).id, script, 1)
    /\ UNCHANGED <<built, tgt_origin, msg_scope, calls>>

\* in a later turn, the application calls complete on a transaction it kept
TranComplete(s, id, v) ==
    /\ id \in DOMAIN handles[s]
    /\ calls < MaxCalls
    /\ calls' = calls + 1
    /\ Commit(s, complete(Logged(Local(s), Event("complete", id, "", Scalar(Undefined),
                                                 v, Undefined)), id, v),
              "complete", id, <<>>, 0)
    /\ UNCHANGED <<built, tgt_origin, msg_scope, rcvd>>

\* in a later turn, the application calls error on a transaction it kept
TranError(s, id, c, m) ==
    /\ id \in DOMAIN handles[s]
    /\ calls < MaxCalls
    /\ calls' = calls + 1
    /\ Commit(s, error(Logged(Local(s), Event("callError", id, "", Scalar(Undefined), c, m)),
                       id, c, m),
              "error", id, <<>>, 0)
    /\ UNCHANGED <<built, tgt_origin, msg_scope, rcvd>>

\* the ids either side can have allocated after MaxCalls queries
Ids == 1000..(1001 + 2 * MaxCalls)

\* the windows whose application issues queries: the parent page calls into
\* the frame it embeds; both notify, and the code of the two is the same
Clients == {"parent"}

Next ==
    \/ \E s \in Side : Build(s)
    \/ \E s \in Side : Bind(s, "echo")
    \/ \E s \in Clients, m \in QueryInputs : Query(s, m)
    \/ \E s \in Side, m \in NotifyInputs : Notify(s, m)
    \/ \E s \in Side, script \in HandlerScripts \cup NotifyScripts : Deliver(s, script)
    \/ \E s \in Side, id \in Ids : TranComplete(s, id, Str("late"))
    \/ \E s \in Side, id \in Ids : TranError(s, id, Str("late_error"), Str("too late"))

Spec == Init /\ [][Next]_vars

(***************************************************************************)
(* The same two windows with other values of the tgt_origin argument: the  *)
(* wildcard, or an origin that is not the one the peer's messages carry.   *)
(***************************************************************************)
OtherOrigin == "http://other.example"

InitOrigin ==
    /\ tgt_origin \in [Side -> {"*", OtherOrigin}]
    /\ built = [s \in Side |-> FALSE]
    /\ msg_scope = [s \in Side |-> ""]
    /\ regTbl = [s \in Side |-> {}]
    /\ tranTbl = [s \in Side |-> <<>>]
    /\ curTranId = [s \in Side |-> 1000]
    /\ ready = [s \in Side |-> FALSE]
    /\ pendingQueue = [s \in Side |-> <<>>]
    /\ handles = [s \in Side |-> <<>>]
    /\ net = [s \in Side |-> <<>>]
    /\ sent = [s \in Side |-> <<>>]
    /\ rcvd = [s \in Side |-> <<>>]
    /\ log = [s \in Side |-> <<>>]
    /\ last = [s \in Side |-> [op |-> "init", id |-> 0, exc |-> NoThrow, script |-> <<>>]]
    /\ calls = 0

SpecOrigin == InitOrigin /\ [][Next]_vars

(***************************************************************************)
(* The two windows with an application that also unbinds methods and binds *)
(* them again.                                                             *)
(***************************************************************************)
\* the application unbinds a method
Unbind(s, method) ==
    /\ built[s]
    /\ calls < MaxCalls
    /\ calls' = calls + 1
    /\ Commit(s, unbind(Logged(Local(s), Event("unbind", 0, method, Scalar(Undefined),
                                               Undefined, Undefined)), method),
              "unbind", 0, <<>>, 0)
    /\ UNCHANGED <<built, tgt_origin, msg_scope, rcvd>>

\* the application binds a handler to a method it has unbound before
Rebind(s, method) ==
    /\ built[s]
    /\ \E i \in 1..Len(log[s]) : log[s][i].ev = "unbind" /\ log[s][i].name = method
    /\ calls < MaxCalls
    /\ calls' = calls + 1
    /\ Commit(s, bind(Logged(Local(s), Event("bind", 0, method, Scalar(Undefined),
                                             Undefined, Undefined)), method),
              "bind", 0, <<>>, 0)
    /\ UNCHANGED <<built, tgt_origin, msg_scope, rcvd>>

NextUnbind ==
    \/ \E s \in Side : Build(s)
    \/ \E s \in Side : Bind(s, "echo")
    \/ \E s \in Side : Unbind(s, "echo")
    \/ \E s \in Side : Rebind(s, "echo")
    \/ \E s \in Clients, m \in QueryInputs : Query(s, m)
    \/ \E s \in Side, m \in NotifyInputs : Notify(s, m)
    \/ \E s \in Side, script \in HandlerScripts \cup NotifyScripts : Deliver(s, script)

SpecUnbind == Init /\ [][NextUnbind]_vars

(***************************************************************************)
(* The two windows with an application that gives its queries no error     *)
(* continuation.                                                           *)
(***************************************************************************)
QueryInputsNoError ==
    {[method |-> "echo", params |-> Scalar(Str("hi")), success |-> TRUE, error |-> FALSE]}

NextNoError ==
    \/ \E s \in Side : Build(s)
    \/ \E s \in Side : Bind(s, "echo")
    \/ \E s \in Clients, m \in QueryInputsNoError : Query(s, m)
    \/ \E s \in Side, script \in HandlerScripts \cup NotifyScripts : Deliver(s, script)

SpecNoError == Init /\ [][NextNoError]_vars

(***************************************************************************)
(* The two windows with handlers that defer their response, complete it    *)
(* themselves, or return nothing.                                          *)
(***************************************************************************)
DeferScripts ==
    {<<>>,
     <<Step("return", Arg1(Str("hi")))>>,
     <<Step("complete", Arg1(Str("hi")))>>,
     <<Step("delay", NoThrow)>>,
     <<Step("delay", NoThrow), Step("return", Arg1(Str("hi")))>>}

\* the listener of window s runs on the next event posted to it, and a
\* request handler it reaches behaves as one of DeferScripts
DeliverDeferring(s, script) ==
    /\ built[s]
    /\ Len(net[s]) > 0
    /\ script \in (IF ScriptsFor(s, Head(net[s])) = HandlerScripts THEN DeferScripts
                   ELSE ScriptsFor(s, Head(net[s])))
    /\ rcvd' = [rcvd EXCEPT ![s] = Append(@, Head(net[s]))]
    /\ Commit(s, onMessage(Local(s), Head(net[s]), script), "onMessage",
              JSONparse(Head(net[s]).data).id, script, 1)
    /\ UNCHANGED <<built, tgt_origin, msg_scope, calls>>

NextDefer ==
    \/ \E s \in Side : Build(s)
    \/ \E s \in Side : Bind(s, "echo")
    \/ \E s \in Clients, m \in QueryInputs : Query(s, m)
    \/ \E s \in Side, script \in DeferScripts \cup NotifyScripts : DeliverDeferring(s, script)
    \/ \E s \in Side, id \in Ids : TranComplete(s, id, Str("late"))
    \/ \E s \in Side, id \in Ids : TranError(s, id, Str("late_error"), Str("too late"))

SpecDefer == Init /\ [][NextDefer]_vars

(***************************************************************************)
(* The two windows with applications that both issue queries, some of them *)
(* without a method or without a success continuation.                     *)
(***************************************************************************)
QueryInputsBoth ==
    {[method |-> "echo", params |-> Scalar(Str("hi")), success |-> TRUE, error |-> TRUE],
     [method |-> "echo", params |-> Scalar(Str("hi")), success |-> FALSE, error |-> TRUE],
     [method |-> "", params |-> Scalar(Str("hi")), success |-> TRUE, error |-> TRUE]}

NextBoth ==
    \/ \E s \in Side : Build(s)
    \/ \E s \in Side : Bind(s, "echo")
    \/ \E s \in Side, m \in QueryInputsBoth : Query(s, m)
    \/ \E s \in Side, script \in DeferScripts \cup NotifyScripts : DeliverDeferring(s, script)

SpecBoth == Init /\ [][NextBoth]_vars

(***************************************************************************)
(* The two windows, exchanging notifications, under a browser that does    *)
(* construct both channels and whose event loop does run the listener on   *)
(* every event posted to a window.                                         *)
(***************************************************************************)
NextLive ==
    \/ \E s \in Side : Build(s)
    \/ \E s \in Side : Bind(s, "echo")
    \/ \E s \in Side, m \in NotifyInputs : Notify(s, m)
    \/ \E s \in Side, script \in DeferScripts \cup NotifyScripts : DeliverDeferring(s, script)

Fairness ==
    \A s \in Side :
        /\ WF_vars(Build(s))
        /\ WF_vars(\E script \in DeferScripts \cup NotifyScripts : DeliverDeferring(s, script))

SpecLive == Init /\ [][NextLive]_vars /\ Fairness

(***************************************************************************)
(* The two windows after the handshake, over a transport that delivers     *)
(* synchronously: the peer's listener runs inside tgt_win.postMessage, and *)
(* so does the listener of the sender on whatever the peer posts back.     *)
(***************************************************************************)
SyncScripts ==
    {<<Step("return", Arg1(Str("hi")))>>,
     <<Step("throw", ThrowStr("bad"))>>,
     <<Step("throw", Pair(Str("custom_code"), Str("oops")))>>,
     <<Step("throw", Obj(Str("E"), Str("msg")))>>,
     <<Step("invoke", Arg1(Num(42))), Step("return", Arg1(Str("hi")))>>,
     <<Step("complete", Arg1(Str("hi")))>>}

PingEvent(s) ==
    [origin |-> OriginOf(s),
     data |-> JSONstringify([NoMsg EXCEPT !.method = "__ready",
                                          !.params = Scalar(Str("ping"))])]
PongEvent(s) ==
    [origin |-> OriginOf(s),
     data |-> JSONstringify([NoMsg EXCEPT !.method = "__ready",
                                          !.params = Scalar(Str("pong"))])]

\* both channels built, "echo" bound on both, the child's ping answered by
\* the parent's pong, and both sides ready
InitSync ==
    /\ built = [s \in Side |-> TRUE]
    /\ tgt_origin = [s \in Side |-> OriginOf(Peer(s))]
    /\ msg_scope = [s \in Side |-> ""]
    /\ regTbl = [s \in Side |-> {"__ready", "echo"}]
    /\ tranTbl = [s \in Side |-> <<>>]
    /\ curTranId = [s \in Side |-> IF s = "child" THEN 1001 ELSE 1000]
    /\ ready = [s \in Side |-> TRUE]
    /\ pendingQueue = [s \in Side |-> <<>>]
    /\ handles = [s \in Side |-> <<>>]
    /\ net = [s \in Side |-> <<>>]
    /\ sent = [s \in Side |-> IF s = "child" THEN <<PingEvent(s).data>>
                              ELSE <<PingEvent(s).data, PongEvent(s).data>>]
    /\ rcvd = [s \in Side |-> IF s = "child" THEN <<PongEvent("parent")>>
                              ELSE <<PingEvent("child")>>]
    /\ log = [s \in Side |-> <<>>]
    /\ last = [s \in Side |-> [op |-> "onMessage", id |-> 0, exc |-> NoThrow,
                               script |-> <<>>]]
    /\ calls = 0

RECURSIVE receiveAll(_, _)
\* the listener run on each of events in turn
receiveAll(st, events) ==
    IF events = <<>> THEN st
    ELSE CHOOSE r \in {receiveAll(n, Tail(events)) :
                          n \in {onMessage(st, Head(events), <<>>)}} : TRUE

\* the application of side s issues a query: the Request is posted (a1),
\* the peer's listener runs on it and its handler behaves as script (p1),
\* the listener of s runs on what the peer posted back (a2), and then query
\* goes on to its table insert
QuerySync(s, m, script) ==
    /\ calls < MaxCalls
    /\ calls' = calls + 1
    /\ \E pruned \in {pruneFunctions(m.params)} :
       \E a1 \in {postMessage(Logged(Local(s), Event("query", curTranId[s], m.method,
                                                      m.params, Undefined, Undefined)),
                              [NoMsg EXCEPT !.id = curTranId[s],
                                            !.method = scopeMethod(Local(s), m.method),
                                            !.params = pruned.params,
                                            !.callbacks = pruned.callbackNames])} :
       \E p1 \in {IF a1.out = <<>> THEN Local(Peer(s))
                  ELSE onMessage(Local(Peer(s)), Head(Posted(s, a1.out)), script)} :
       \E a2 \in {receiveAll(a1, Posted(Peer(s), p1.out))} :
       \E a3 \in {[a2 EXCEPT !.tranTbl = Put(@, curTranId[s],
                                             [t |-> "out", callbacks |-> pruned.callbacks,
                                              error |-> m.error, success |-> m.success]),
                             !.curTranId = @ + 2]} :
          /\ regTbl' = [t \in Side |-> IF t = s THEN a3.regTbl ELSE p1.regTbl]
          /\ tranTbl' = [t \in Side |-> IF t = s THEN a3.tranTbl ELSE p1.tranTbl]
          /\ curTranId' = [t \in Side |-> IF t = s THEN a3.curTranId ELSE p1.curTranId]
          /\ ready' = [t \in Side |-> IF t = s THEN a3.ready ELSE p1.ready]
          /\ pendingQueue' = [t \in Side |-> IF t = s THEN a3.pendingQueue
                                             ELSE p1.pendingQueue]
          /\ handles' = [t \in Side |-> IF t = s THEN a3.handles ELSE p1.handles]
          /\ log' = [t \in Side |-> IF t = s THEN a3.log ELSE p1.log]
          /\ sent' = [t \in Side |-> sent[t] \o (IF t = s THEN a3.out ELSE p1.out)]
          /\ rcvd' = [t \in Side |-> rcvd[t] \o (IF t = s THEN Posted(Peer(s), p1.out)
                                                 ELSE Posted(s, a1.out))]
          /\ last' = [t \in Side |->
                        IF t = s THEN [op |-> "query", id |-> curTranId[s], exc |-> a3.exc,
                                       script |-> <<>>]
                        ELSE [op |-> "onMessage", id |-> curTranId[s], exc |-> p1.exc,
                              script |-> script]]
    /\ UNCHANGED <<built, tgt_origin, msg_scope, net>>

NextSync == \E s \in Side, m \in QueryInputs, script \in SyncScripts : QuerySync(s, m, script)

SpecSync == InitSync /\ [][NextSync]_vars

(***************************************************************************)
(* Two channels per window, built with the scopes "app" and "web" over the *)
(* same pair of windows.  Here the per-channel variables are indexed by    *)
(* <<window, scope>> and net by window: every listener registered on a     *)
(* window is run, in the order of registration, on each event posted to    *)
(* that window.                                                            *)
(***************************************************************************)
Chan == Side \X ScopeNames
ChansOf(w) == <<(<<w, "app">>), (<<w, "web">>)>>
PeerChan(c) == <<Peer(c[1]), c[2]>>
Listening(w) == {c \in Chan : c[1] = w /\ built[c]}

InitScoped ==
    /\ built = [c \in Chan |-> FALSE]
    /\ tgt_origin = [c \in Chan |-> OriginOf(Peer(c[1]))]
    /\ msg_scope = [c \in Chan |-> c[2]]
    /\ regTbl = [c \in Chan |-> {}]
    /\ tranTbl = [c \in Chan |-> <<>>]
    /\ curTranId = [c \in Chan |-> 1000]
    /\ ready = [c \in Chan |-> FALSE]
    /\ pendingQueue = [c \in Chan |-> <<>>]
    /\ handles = [c \in Chan |-> <<>>]
    /\ net = [w \in Side |-> <<>>]
    /\ sent = [c \in Chan |-> <<>>]
    /\ rcvd = [c \in Chan |-> <<>>]
    /\ log = [c \in Chan |-> <<>>]
    /\ last = [c \in Chan |-> [op |-> "init", id |-> 0, exc |-> NoThrow, script |-> <<>>]]
    /\ calls = 0

\* what the channels of window w posted in one turn, in listener order
OutOf(w, upd) ==
    (IF ChansOf(w)[1] \in DOMAIN upd THEN upd[ChansOf(w)[1]].out ELSE <<>>)
        \o (IF ChansOf(w)[2] \in DOMAIN upd THEN upd[ChansOf(w)[2]].out ELSE <<>>)

\* one turn in window w ends with the channels in DOMAIN upd in the states
\* upd gives: their variables are written back, what they posted goes to the
\* other window, and `taken` events leave the queue of w
CommitScoped(w, upd, op, id, script, taken) ==
    /\ regTbl' = [c \in Chan |-> IF c \in DOMAIN upd THEN upd[c].regTbl ELSE regTbl[c]]
    /\ tranTbl' = [c \in Chan |-> IF c \in DOMAIN upd THEN upd[c].tranTbl ELSE tranTbl[c]]
    /\ curTranId' = [c \in Chan |-> IF c \in DOMAIN upd THEN upd[c].curTranId
                                    ELSE curTranId[c]]
    /\ ready' = [c \in Chan |-> IF c \in DOMAIN upd THEN upd[c].ready ELSE ready[c]]
    /\ pendingQueue' = [c \in Chan |-> IF c \in DOMAIN upd THEN upd[c].pendingQueue
                                       ELSE pendingQueue[c]]
    /\ handles' = [c \in Chan |-> IF c \in DOMAIN upd THEN upd[c].handles ELSE handles[c]]
    /\ log' = [c \in Chan |-> IF c \in DOMAIN upd THEN upd[c].log ELSE log[c]]
    /\ sent' = [c \in Chan |-> IF c \in DOMAIN upd THEN sent[c] \o upd[c].out ELSE sent[c]]
    /\ net' = [t \in Side |->
                 IF t = w THEN SubSeq(net[w], taken + 1, Len(net[w]))
                 ELSE IF Listening(t) # {} THEN net[t] \o Posted(w, OutOf(w, upd))
                 ELSE net[t]]
    /\ last' = [c \in Chan |-> IF c \in DOMAIN upd
                               THEN [op |-> op, id |-> id, exc |-> upd[c].exc,
                                     script |-> script]
                               ELSE last[c]]

\* Channel.build(tgt_win, tgt_origin, msg_scope); the application of each
\* window builds its "app" channel before its "web" channel
BuildScoped(c) ==
    /\ ~built[c]
    /\ c[2] = "web" => built[<<c[1], "app">>]
    /\ built' = [built EXCEPT ![c] = TRUE]
    /\ LET child == c[1] = "child"
           s0 == [Local(c) EXCEPT !.regTbl = {}, !.tranTbl = <<>>,
                                  !.curTranId = IF child THEN 1001 ELSE 1000,
                                  !.ready = child, !.pendingQueue = <<>>]
           s1 == bind(s0, "__ready")
           s2 == notify([s1 EXCEPT !.ready = TRUE],
                        [method |-> "__ready", params |-> Scalar(Str("ping"))])
           s3 == [s2 EXCEPT !.ready = FALSE]
       IN  CommitScoped(c[1], [x \in {c} |-> s3], "build", 0, <<>>, 0)
    /\ UNCHANGED <<tgt_origin, msg_scope, rcvd, calls>>

\* the application binds a handler to a method of channel c
BindScoped(c, method) ==
    /\ built[c]
    /\ method \notin regTbl[c]
    /\ CommitScoped(c[1], [x \in {c} |-> bind(Local(c), method)], "bind", 0, <<>>, 0)
    /\ UNCHANGED <<built, tgt_origin, msg_scope, rcvd, calls>>

\* the application issues a query on channel c
QueryScoped(c, m) ==
    /\ built[c]
    /\ calls < MaxCalls
    /\ calls' = calls + 1
    /\ CommitScoped(c[1],
                    [x \in {c} |-> query(Logged(Local(c), Event("query", curTranId[c],
                                                                 m.method, m.params,
                                                                 Undefined, Undefined)), m)],
                    "query", curTranId[c], <<>>, 0)
    /\ UNCHANGED <<built, tgt_origin, msg_scope, rcvd>>

\* what the handlers of the two-channel windows do with a request
ScopedScripts ==
    {<<Step("return", Arg1(Str("hi")))>>,
     <<Step("throw", ThrowStr("bad"))>>,
     <<Step("invoke", Arg1(Num(42))), Step("return", Arg1(Str("hi")))>>}

\* the scripts the listeners of window w can meet on event e
ScriptsForScoped(w, e) ==
    LET m == JSONparse(e.data)
        ar == SplitScope(m.method)
    IN  IF /\ e.data.json = "object"
           /\ m.id # 0
           /\ Len(ar) = 2
           /\ \E c \in Listening(w) :
                 /\ tgt_origin[c] \in {"*", e.origin}
                 /\ ar[1] = msg_scope[c]
                 /\ ar[2] \in regTbl[c] \ {"__ready"}
        THEN ScopedScripts
        ELSE {<<>>}

\* window w dispatches the next event posted to it: each listener
\* registered on it runs on the event
DeliverScoped(w, script) ==
    /\ Listening(w) # {}
    /\ Len(net[w]) > 0
    /\ script \in ScriptsForScoped(w, Head(net[w]))
    /\ rcvd' = [c \in Chan |-> IF c \in Listening(w) THEN Append(rcvd[c], Head(net[w]))
                               ELSE rcvd[c]]
    /\ CommitScoped(w, [c \in Listening(w) |-> onMessage(Local(c), Head(net[w]), script)],
                    "onMessage", JSONparse(Head(net[w]).data).id, script, 1)
    /\ UNCHANGED <<built, tgt_origin, msg_scope, calls>>

NextScoped ==
    \/ \E c \in Chan : BuildScoped(c)
    \/ \E c \in Chan : c[1] \notin Clients /\ BindScoped(c, "echo")
    \/ \E c \in Chan, m \in QueryInputs : c[1] \in Clients /\ QueryScoped(c, m)
    \/ \E w \in Side, script \in ScopedScripts \cup {<<>>} : DeliverScoped(w, script)

SpecScoped == InitScoped /\ [][NextScoped]_vars

(***************************************************************************)
(* Vocabulary of the properties.                                           *)
(***************************************************************************)
\* the kind of a message, by the fields it has (spec, Message)
IsRequest(m) == m.id # 0 /\ m.method # ""
IsNotification(m) == m.id = 0 /\ m.method # ""
IsCallbackInvocation(m) == m.id # 0 /\ m.method = "" /\ m.callback # ""
IsResponse(m) ==
    /\ m.id # 0 /\ m.method = "" /\ m.callback = ""
    /\ m.result # Undefined \/ m.error # Undefined

ParseAll(wire) == [i \in 1..Len(wire) |-> JSONparse(wire[i])]
\* the messages side s handed to the transport, then those it still holds back
OutMsgs(s) == ParseAll(sent[s]) \o pendingQueue[s]
\* the messages the listener of side s has been run on
Received(s) == [i \in 1..Len(rcvd[s]) |-> JSONparse(rcvd[s][i].data)]

\* a step in which the listener of side s runs, and the message it runs on
Delivered(s) == rcvd'[s] # rcvd[s]
TheMsg(s) == JSONparse(Head(net[s]).data)
\* a step that is a call of the application on side s, logged as event ev
AppCall(s, ev) == Len(log'[s]) = Len(log[s]) + 1 /\ log'[s][Len(log'[s])].ev = ev
TheCall(s) == log'[s][Len(log'[s])]
\* what side s hands to the transport, and what it queues, in a step
NewSent(s) == SubSeq(ParseAll(sent'[s]), Len(sent[s]) + 1, Len(sent'[s]))
NewQueued(s) == SubSeq(pendingQueue'[s], Len(pendingQueue[s]) + 1, Len(pendingQueue'[s]))
Emitted(s) == NewSent(s) \o NewQueued(s)

Occurrences(seq, x) == Cardinality({i \in 1..Len(seq) : seq[i] = x})
ResponsesFor(seq, id) == {i \in 1..Len(seq) : IsResponse(seq[i]) /\ seq[i].id = id}
Continuations(s, id) ==
    {i \in 1..Len(log[s]) : log[s][i].ev \in {"success", "error"} /\ log[s][i].id = id}
Bound(s, m) == m.method \in regTbl[s] \ {"__ready"}

(***************************************************************************)
(* C1                                                                      *)
(***************************************************************************)
\* C1: once the side that issued a query has processed the Response that
\* the peer's handler produced by returning or throwing (no later call of
\* complete or error was needed), exactly one of the query's continuations
\* has been invoked, exactly once, and its transaction table holds no entry
\* for the id.
C1_OneContinuation ==
    \A s \in Side : \A k \in 1..Len(rcvd[s]) :
        LET m == Received(s)[k]
        IN  (/\ IsResponse(m)
             /\ \E j \in 1..Len(log[s]) : log[s][j].ev = "query" /\ log[s][j].id = m.id
             /\ ~ \E j \in 1..Len(log[Peer(s)]) :
                     /\ log[Peer(s)][j].ev \in {"complete", "callError"}
                     /\ log[Peer(s)][j].id = m.id)
            => /\ Cardinality(Continuations(s, m.id)) = 1
               /\ m.id \notin DOMAIN tranTbl[s]

(***************************************************************************)
(* C3                                                                      *)
(***************************************************************************)
\* C3: a side never receives a CallbackInvocation for a transaction id after
\* the terminal Response for that id.
C3_CallbackBeforeResponse ==
    \A s \in Side : \A j, k \in 1..Len(rcvd[s]) :
        (/\ IsCallbackInvocation(Received(s)[j])
         /\ IsResponse(Received(s)[k])
         /\ Received(s)[j].id = Received(s)[k].id)
        => j < k

(***************************************************************************)
(* C8, C9, C10                                                             *)
(***************************************************************************)
\* the script of a handler that does nothing but throw e
JustThrows(script) == Len(script) = 1 /\ script[1].op = "throw"

\* C8: a handler that throws a string s gets the Response (runtime_error, s)
\* sent, one that throws a pair [c, m] the Response (c, m); and the error
\* continuation of the querying side receives the pair the Response carries.
C8_ThrownStringOrPair ==
    [][\A s \in Side : Delivered(s) =>
        LET m == TheMsg(s)
            script == last'[s].script
            e == script[1].arg
        IN  /\ (IsRequest(m) /\ Bound(s, m) /\ JustThrows(script)
                  /\ e.k = "scalar" /\ e.a.t = "string")
               => \E i \in 1..Len(Emitted(s)) :
                     Emitted(s)[i] = [NoMsg EXCEPT !.id = m.id,
                                                   !.error = Str("runtime_error"),
                                                   !.message = e.a]
            /\ (IsRequest(m) /\ Bound(s, m) /\ JustThrows(script) /\ e.k = "array2")
               => \E i \in 1..Len(Emitted(s)) :
                     Emitted(s)[i] = [NoMsg EXCEPT !.id = m.id, !.error = e.a,
                                                   !.message = e.b]
            /\ (/\ IsResponse(m) /\ m.result = Undefined
                /\ m.id \in DOMAIN tranTbl[s]
                /\ tranTbl[s][m.id].t = "out" /\ tranTbl[s][m.id].error)
               => log'[s] = Append(log[s], Event("error", m.id, "", Scalar(Undefined),
                                                 m.error, m.message))
      ]_vars

\* C9: a handler that throws an object with a string error field and a
\* string message field gets a Response sent that carries those two fields.
C9_ThrownObject ==
    [][\A s \in Side : Delivered(s) =>
        LET m == TheMsg(s)
            script == last'[s].script
            e == script[1].arg
        IN  (IsRequest(m) /\ Bound(s, m) /\ JustThrows(script) /\ e.k = "object"
               /\ e.a.t = "string" /\ e.b.t = "string")
            => \E i \in 1..Len(Emitted(s)) :
                  Emitted(s)[i] = [NoMsg EXCEPT !.id = m.id, !.error = e.a,
                                                !.message = e.b]
      ]_vars

\* C10: when the handler of a request ends by throwing, the listener throws
\* nothing to its caller, and one terminal Response for the transaction
\* has been sent or queued.
C10_HandlerFaultContained ==
    \A s \in Side :
        (/\ last[s].op = "onMessage" /\ last[s].id # 0
         /\ Len(last[s].script) > 0
         /\ last[s].script[Len(last[s].script)].op = "throw")
        => /\ last[s].exc = NoThrow
           /\ Cardinality(ResponsesFor(OutMsgs(s), last[s].id)) = 1

(***************************************************************************)
(* C2                                                                      *)
(***************************************************************************)
HandlerRuns(s) == {i \in 1..Len(log[s]) : log[s][i].ev = "handler" /\ log[s][i].id = 0}
NotifyCalls(s) == {i \in 1..Len(log[s]) : log[s][i].ev = "notify"}

\* C2: a call of notify leaves the caller's transaction table and next id
\* as they were; the listener that receives the notification for a bound
\* method invokes the handler exactly once, with a null transaction and the
\* params some notify of the peer was given, sends and queues nothing, and
\* leaves its own transaction table and next id as they were.
C2_NotifyIsOneWay ==
    [][\A s \in Side :
        /\ AppCall(s, "notify")
           => /\ tranTbl' = tranTbl /\ curTranId' = curTranId
              /\ \A i \in 1..Len(Emitted(s)) : IsNotification(Emitted(s)[i])
        /\ (Delivered(s) /\ IsNotification(TheMsg(s)) /\ Bound(s, TheMsg(s)))
           => /\ log'[s] = Append(log[s], Event("handler", 0, TheMsg(s).method,
                                               TheMsg(s).params, Undefined, Undefined))
              /\ \E i \in NotifyCalls(Peer(s)) :
                    /\ log[Peer(s)][i].name = TheMsg(s).method
                    /\ log[Peer(s)][i].params = TheMsg(s).params
              /\ sent' = sent /\ pendingQueue' = pendingQueue
              /\ tranTbl' = tranTbl /\ curTranId' = curTranId
      ]_vars

\* a notification was sent, and its handler has run on the other side
C2_Witness ==
    \E s \in Side : HandlerRuns(s) # {} /\ NotifyCalls(Peer(s)) # {}

(***************************************************************************)
(* C4                                                                      *)
(***************************************************************************)
\* C4: a query or notify made while the channel is not ready posts nothing
\* and puts its one message at the end of the pending queue; the listener
\* that processes a __ready notification leaves the queue empty and hands
\* to the transport each queued message, unchanged, as many times as it was
\* queued (followed by the pong, when it answers a ping).
C4_QueuedThenFlushedOnce ==
    [][\A s \in Side :
        /\ ((AppCall(s, "query") \/ AppCall(s, "notify")) /\ ~ready[s])
           => /\ sent' = sent /\ net' = net
              /\ Len(NewQueued(s)) = 1
              /\ SubSeq(pendingQueue'[s], 1, Len(pendingQueue[s])) = pendingQueue[s]
              /\ NewQueued(s)[1].method = TheCall(s).name
              /\ NewQueued(s)[1].id = TheCall(s).id
        /\ (Delivered(s) /\ IsNotification(TheMsg(s)) /\ TheMsg(s).method = "__ready")
           => LET q == pendingQueue[s]
                  flushed == SubSeq(NewSent(s), 1, Len(q))
                  rest == SubSeq(NewSent(s), Len(q) + 1, Len(NewSent(s)))
              IN  /\ pendingQueue'[s] = <<>>
                  /\ ready'[s]
                  /\ Len(NewSent(s)) >= Len(q)
                  /\ \A i \in 1..Len(q) : Occurrences(flushed, q[i]) = Occurrences(q, q[i])
                  /\ rest = IF TheMsg(s).params = Scalar(Str("pong")) THEN <<>>
                            ELSE <<[NoMsg EXCEPT !.method = "__ready",
                                                 !.params = Scalar(Str("pong"))]>>
      ]_vars

\* two messages were queued before the channel was ready and have since
\* been flushed
C4_Witness ==
    \E s \in Side :
        /\ last[s].op = "onMessage" /\ ready[s] /\ pendingQueue[s] = <<>>
        /\ Len(sent[s]) >= 4
        /\ Received(s)[Len(rcvd[s])].method = "__ready"
        /\ Cardinality({i \in 1..Len(log[s]) : log[s][i].ev \in {"query", "notify"}}) = 2

(***************************************************************************)
(* C5                                                                      *)
(***************************************************************************)
\* C5: a query whose params hold an invocable f at path a/b emits a Request
\* that lists "a/b" in callbacks and carries no invocable; a handler that
\* calls the stub for "a/b" with v makes its side emit exactly one
\* CallbackInvocation {id, callback: "a/b", params: v}; and the querying
\* side, on receiving a CallbackInvocation for a callback of a transaction
\* in its table, invokes the original f with the params received and keeps
\* the table entry.
C5_CallbackRoundTrip ==
    [][\A s \in Side :
        /\ (AppCall(s, "query")
              /\ [path |-> <<"a", "b">>, leaf |-> Fn("onProgress")] \in TheCall(s).params)
           => \E i \in 1..Len(Emitted(s)) :
                 /\ IsRequest(Emitted(s)[i]) /\ Emitted(s)[i].id = curTranId[s]
                 /\ \E j \in 1..Len(Emitted(s)[i].callbacks) :
                       Emitted(s)[i].callbacks[j] = "a/b"
                 /\ \A l \in Emitted(s)[i].params : l.leaf.t # "function"
        /\ (Delivered(s) /\ IsRequest(TheMsg(s)) /\ Bound(s, TheMsg(s))
              /\ TheMsg(s).callbacks = <<"a/b">>
              /\ Len(last'[s].script) > 0 /\ last'[s].script[1].op = "invoke")
           => /\ Cardinality({i \in 1..Len(Emitted(s)) :
                                 IsCallbackInvocation(Emitted(s)[i])}) = 1
              /\ Emitted(s)[1] = [NoMsg EXCEPT !.id = TheMsg(s).id, !.callback = "a/b",
                                               !.params = Scalar(last'[s].script[1].arg.a)]
        /\ (/\ Delivered(s) /\ IsCallbackInvocation(TheMsg(s))
            /\ TheMsg(s).id \in DOMAIN tranTbl[s]
            /\ tranTbl[s][TheMsg(s).id].t = "out"
            /\ \E j \in 1..Len(log[s]) :
                  /\ log[s][j].ev = "query" /\ log[s][j].id = TheMsg(s).id
                  /\ \E l \in log[s][j].params :
                        l.leaf.t = "function" /\ JoinPath(l.path) = TheMsg(s).callback)
           => /\ \E j \in 1..Len(log[s]) :
                    /\ log[s][j].ev = "query" /\ log[s][j].id = TheMsg(s).id
                    /\ \E l \in log[s][j].params :
                          /\ l.leaf.t = "function" /\ JoinPath(l.path) = TheMsg(s).callback
                          /\ log'[s] = Append(log[s],
                                 Event("callback", TheMsg(s).id, l.leaf.s,
                                       TheMsg(s).params, Undefined, Undefined))
              /\ tranTbl'[s] = tranTbl[s]
      ]_vars

\* the original invocable has run on the querying side with the value the
\* handler gave the stub, and the transaction is still in the table
C5_Witness ==
    \E s \in Side : \E i \in 1..Len(log[s]) :
        /\ log[s][i] = Event("callback", log[s][i].id, "onProgress", Scalar(Num(42)),
                             Undefined, Undefined)
        /\ log[s][i].id \in DOMAIN tranTbl[s]

(***************************************************************************)
(* C6                                                                      *)
(***************************************************************************)
\* C6: for each transaction id a side has emitted at most one Response, and
\* once it has, the id is not in its transaction table; a call of complete
\* or error on a handle whose Response has been emitted raises an error to
\* the caller and emits nothing.
C6_TerminateOnce ==
    /\ [](\A s \in Side : \A id \in Ids :
            /\ Cardinality(ResponsesFor(OutMsgs(s), id)) <= 1
            /\ ResponsesFor(OutMsgs(s), id) # {} => id \notin DOMAIN tranTbl[s])
    /\ [][\A s \in Side :
            /\ ((AppCall(s, "complete") \/ AppCall(s, "callError"))
                  /\ ResponsesFor(OutMsgs(s), TheCall(s).id) # {})
               => /\ last'[s].exc # NoThrow
                  /\ sent' = sent /\ pendingQueue' = pendingQueue /\ net' = net
            /\ (Delivered(s) /\ IsRequest(TheMsg(s)) /\ Bound(s, TheMsg(s))
                  /\ Len(last'[s].script) = 2 /\ last'[s].script[1].op = "complete"
                  /\ last'[s].script[2].op = "throw")
               => /\ last'[s].exc # NoThrow
                  /\ Cardinality({i \in 1..Len(Emitted(s)) : IsResponse(Emitted(s)[i])}) = 1
         ]_vars

\* complete or error was called on a handle whose Response was already out,
\* and the call raised an error
C6_Witness ==
    \E s \in Side :
        /\ last[s].op \in {"complete", "error"}
        /\ last[s].exc # NoThrow
        /\ ResponsesFor(OutMsgs(s), last[s].id) # {}

(***************************************************************************)
(* C7                                                                      *)
(***************************************************************************)
\* C7: when the configured origin is not the wildcard and differs from the
\* origin of the event, the listener changes nothing of its channel, runs
\* no handler or continuation, posts and queues nothing, and throws nothing.
C7_ForeignOriginDropped ==
    [][\A s \in Side :
        (Delivered(s) /\ tgt_origin[s] # "*" /\ Head(net[s]).origin # tgt_origin[s])
        => /\ UNCHANGED <<regTbl, tranTbl, curTranId, ready, pendingQueue, handles, log, sent>>
           /\ net'[Peer(s)] = net[Peer(s)]
           /\ last'[s].exc = NoThrow
      ]_vars

\* a side configured with another origin has been handed its peer's ping and
\* a request for a method it has bound
C7_Witness ==
    \E s \in Side :
        /\ tgt_origin[s] = OtherOrigin
        /\ "echo" \in regTbl[s]
        /\ \E i \in 1..Len(rcvd[s]) : IsRequest(Received(s)[i])
        /\ \E i \in 1..Len(rcvd[s]) : Received(s)[i].method = "__ready"
        /\ ~ready[s] /\ log[s] = <<>>

(***************************************************************************)
(* C11                                                                     *)
(***************************************************************************)
\* the last bind or unbind the application made of method on side s was an
\* unbind
Unbound(s, method) ==
    \E i \in 1..Len(log[s]) :
        /\ log[s][i].ev = "unbind" /\ log[s][i].name = method
        /\ \A j \in (i + 1)..Len(log[s]) : ~(log[s][j].ev = "bind" /\ log[s][j].name = method)

\* C11: unbind(name) raises nothing and leaves name unregistered; while name
\* is unbound the listener invokes no handler for a Request or Notification
\* for name and answers nothing; and a bind(name, h2) made while name is
\* unbound raises nothing.
C11_UnbindRemoves ==
    [][\A s \in Side :
        /\ AppCall(s, "unbind")
           => last'[s].exc = NoThrow /\ TheCall(s).name \notin regTbl'[s]
        /\ (Delivered(s) /\ TheMsg(s).method # "" /\ Unbound(s, TheMsg(s).method))
           => log'[s] = log[s] /\ sent' = sent /\ pendingQueue' = pendingQueue
        /\ (AppCall(s, "bind") /\ Unbound(s, TheCall(s).name))
           => last'[s].exc = NoThrow
      ]_vars

(***************************************************************************)
(* C12                                                                     *)
(***************************************************************************)
\* side s has been handed no __ready yet
NoReadyYet(s) == \A i \in 1..Len(rcvd[s]) : Received(s)[i].method # "__ready"

\* C12 (as stated): a query or notify that the child side issues after its
\* construction and before it has received any __ready is handed to the
\* transport and not appended to the pending queue.
C12_ChildReadyAtOnce ==
    [][((AppCall("child", "query") \/ AppCall("child", "notify")) /\ NoReadyYet("child"))
        => /\ pendingQueue' = pendingQueue
           /\ Len(NewSent("child")) = 1
      ]_vars

\* C12 (amended): construction posts the ping directly and leaves either
\* side, the child included, not ready; a query or notify that a side issues
\* before it has received any __ready is appended to the pending queue and
\* nothing is handed to the transport.
C12_NotReadyUntilHandshake ==
    [][\A s \in Side :
        /\ (built'[s] /\ ~built[s])
           => /\ ~ready'[s] /\ pendingQueue'[s] = <<>>
              /\ NewSent(s) = <<[NoMsg EXCEPT !.method = "__ready",
                                              !.params = Scalar(Str("ping"))]>>
        /\ ((AppCall(s, "query") \/ AppCall(s, "notify")) /\ NoReadyYet(s))
           => /\ ~ready[s]
              /\ sent' = sent
              /\ Len(NewQueued(s)) = 1
      ]_vars

\* the child has issued a notification before receiving any __ready, and
\* holds it in its pending queue
C12_Witness ==
    /\ built["child"] /\ NoReadyYet("child")
    /\ NotifyCalls("child") # {}
    /\ Len(pendingQueue["child"]) = 1
    /\ Len(sent["child"]) = 1

(***************************************************************************)
(* C13                                                                     *)
(***************************************************************************)
\* C13: when the listener processes an error Response for a query that was
\* issued without an error continuation, it throws nothing to its caller and
\* removes the transaction from the table.
C13_ErrorContinuationOptional ==
    [][\A s \in Side :
        (/\ Delivered(s) /\ IsResponse(TheMsg(s))
         /\ TheMsg(s).result = Undefined /\ Truthy(TheMsg(s).error)
         /\ TheMsg(s).id \in DOMAIN tranTbl[s]
         /\ tranTbl[s][TheMsg(s).id].t = "out"
         /\ ~tranTbl[s][TheMsg(s).id].error)
        => /\ last'[s].exc = NoThrow
           /\ TheMsg(s).id \notin DOMAIN tranTbl'[s]
      ]_vars

(***************************************************************************)
(* C14                                                                     *)
(***************************************************************************)
\* C14: a message without method or callback that carries the id of an
\* outbound transaction of the receiving side and a result field makes the
\* listener invoke the success continuation with that result, whatever the
\* value of the result.
C14_KindByPresence ==
    [][\A s \in Side :
        (/\ Delivered(s)
         /\ TheMsg(s).id # 0 /\ TheMsg(s).method = "" /\ TheMsg(s).callback = ""
         /\ TheMsg(s).result # Undefined
         /\ TheMsg(s).id \in DOMAIN tranTbl[s]
         /\ tranTbl[s][TheMsg(s).id].t = "out")
        => log'[s] = Append(log[s], Event("success", TheMsg(s).id, "", Scalar(Undefined),
                                          TheMsg(s).result, Undefined))
      ]_vars

(***************************************************************************)
(* C15                                                                     *)
(***************************************************************************)
HasStep(script, op) == \E i \in 1..Len(script) : script[i].op = op
\* what a handler that runs script to its end returns
ReturnOf(script) ==
    IF Len(script) > 0 /\ script[Len(script)].op = "return"
    THEN script[Len(script)].arg.a ELSE Undefined
InboundOpen(s, id) == id \in DOMAIN tranTbl[s] /\ tranTbl[s][id].t = "in"

RequestIds(s) == {OutMsgs(s)[i].id : i \in {j \in 1..Len(OutMsgs(s)) : IsRequest(OutMsgs(s)[j])}}
Outbound(s) == {id \in DOMAIN tranTbl[s] : tranTbl[s][id].t = "out"}
ParityOf(s) == IF s = "child" THEN 1 ELSE 0

\* C16: the ids a side allocates are 1000, 1002, ... on the parent and 1001,
\* 1003, ... on the child; a query that is accepted emits a Request with the
\* next id, which no earlier Request of that side carries, and advances the
\* next id by 2; a query that is rejected emits nothing and leaves the next
\* id and the table as they were; no id is carried by Requests of both
\* sides; and the listener that processes a Request leaves every outbound
\* entry of its table as it was.
C16_ParityPartition ==
    /\ [](\A s \in Side :
            /\ built[s] => curTranId[s] >= 1000 /\ curTranId[s] % 2 = ParityOf(s)
            /\ \A id \in RequestIds(s) \cup Outbound(s) :
                  id >= 1000 /\ id % 2 = ParityOf(s) /\ id < curTranId[s]
            /\ RequestIds(s) \cap RequestIds(Peer(s)) = {})
    /\ [][\A s \in Side :
            /\ (AppCall(s, "query") /\ last'[s].exc = NoThrow)
               => /\ Len(Emitted(s)) = 1 /\ IsRequest(Emitted(s)[1])
                  /\ Emitted(s)[1].id = curTranId[s]
                  /\ curTranId[s] \notin RequestIds(s)
                  /\ curTranId'[s] = curTranId[s] + 2
                  /\ curTranId[s] \in DOMAIN tranTbl'[s]
                  /\ tranTbl'[s][curTranId[s]].t = "out"
            /\ (AppCall(s, "query") /\ last'[s].exc # NoThrow)
               => /\ Emitted(s) = <<>>
                  /\ curTranId' = curTranId /\ tranTbl' = tranTbl
            /\ (Delivered(s) /\ IsRequest(TheMsg(s)))
               => \A id \in Outbound(s) :
                     id \in DOMAIN tranTbl'[s] /\ tranTbl'[s][id] = tranTbl[s][id]
         ]_vars

\* a side with a query of its own outstanding has processed a Request of
\* its peer
C16_Witness ==
    \E s \in Side :
        /\ Outbound(s) # {}
        /\ last[s].op = "onMessage" /\ last[s].id \in RequestIds(Peer(s))
        /\ \E i \in 1..Len(log[s]) : log[s][i].ev = "handler" /\ log[s][i].id = last[s].id

(***************************************************************************)
(* C17                                                                     *)
(***************************************************************************)
Reverse(seq) == [i \in 1..Len(seq) |-> seq[Len(seq) + 1 - i]]
Ready(arg) == [NoMsg EXCEPT !.method = "__ready", !.params = Scalar(Str(arg))]

\* C17: the listener that processes a __ready hands the queued messages to
\* the transport last queued first, and after all of them the pong, which
\* it sends unless the __ready it processes is itself a pong; what a side
\* has handed to the transport stays ahead of whatever it hands over later;
\* construction hands the ping to the transport directly, and the pending
\* queue never holds a ping.
C17_FlushOrder ==
    /\ [](\A s \in Side : \A i \in 1..Len(pendingQueue[s]) :
            pendingQueue[s][i] # Ready("ping"))
    /\ [][\A s \in Side :
            /\ (Delivered(s) /\ IsNotification(TheMsg(s)) /\ TheMsg(s).method = "__ready")
               => /\ NewSent(s) = Reverse(pendingQueue[s])
                                    \o (IF TheMsg(s).params = Scalar(Str("pong")) THEN <<>>
                                        ELSE <<Ready("pong")>>)
                  /\ pendingQueue'[s] = <<>>
            /\ SubSeq(sent'[s], 1, Len(sent[s])) = sent[s]
            /\ (built'[s] /\ ~built[s])
               => NewSent(s) = <<Ready("ping")>> /\ pendingQueue'[s] = <<>>
         ]_vars

\* a side that queued a query and then a notification has flushed them: the
\* notification went out before the Request, and the pong after both
C17_Witness ==
    \E s \in Side :
        /\ Len(log[s]) >= 2 /\ log[s][1].ev = "query" /\ log[s][2].ev = "notify"
        /\ Len(sent[s]) = 4
        /\ ParseAll(sent[s]) = <<Ready("ping"), ParseAll(sent[s])[2], ParseAll(sent[s])[3],
                                 Ready("pong")>>
        /\ IsNotification(ParseAll(sent[s])[2]) /\ ParseAll(sent[s])[2].method = "echo"
        /\ IsRequest(ParseAll(sent[s])[3])

(***************************************************************************)
(* C18                                                                     *)
(***************************************************************************)
\* the __ready messages both sides have handed to the transport
ReadySent ==
    {<<s, i>> \in Side \X (1..(Len(sent["parent"]) + Len(sent["child"]))) :
        i <= Len(sent[s]) /\ ParseAll(sent[s])[i].method = "__ready"}

\* C18: whichever side is constructed first, both sides are eventually ready
\* and stay ready from then on, and no more than three __ready messages are
\* ever sent: the two pings and the one pong that answers the ping that was
\* not lost; a pong is answered by nothing.
C18_HandshakeCompletes ==
    /\ <>[](\A s \in Side : ready[s])
    /\ [](Cardinality(ReadySent) <= 3)

\* both sides are ready after two pings, of which the first was lost, and
\* one pong, which its receiver has processed
C18_Witness ==
    /\ \A s \in Side : ready[s]
    /\ Cardinality(ReadySent) = 3
    /\ \E s \in Side :
          /\ \A i \in 1..Len(rcvd[s]) : Received(s)[i] # Ready("ping")
          /\ \E i \in 1..Len(rcvd[s]) : Received(s)[i] = Ready("pong")

(***************************************************************************)
(* C19                                                                     *)
(***************************************************************************)
QueryIds(s) == {log[s][i].id : i \in {j \in 1..Len(log[s]) : log[s][j].ev = "query"}}

\* C19: a Response, with a result or an error code that is not empty, that
\* a side has received for a query it issued has invoked one continuation of
\* that query, and a CallbackInvocation it has received for a callback of a
\* query it issued has invoked that callback.
C19_EntryBeforeRequest ==
    \A s \in Side : \A k \in 1..Len(rcvd[s]) :
        LET m == Received(s)[k]
        IN  /\ (IsResponse(m) /\ (Truthy(m.result) \/ Truthy(m.error))
                  /\ m.id \in QueryIds(s))
               => Cardinality(Continuations(s, m.id)) = 1
            /\ (IsCallbackInvocation(m) /\ m.id \in QueryIds(s) /\ m.callback = "a/b")
               => \E i \in 1..Len(log[s]) :
                     log[s][i].ev = "callback" /\ log[s][i].id = m.id

(***************************************************************************)
(* C20                                                                     *)
(***************************************************************************)
Sends(c) == ParseAll(sent[c]) \o pendingQueue[c]
Queried(c) == {log[c][i].id : i \in {k \in 1..Len(log[c]) : log[c][k].ev = "query"}}
CallbacksRun(c, id) ==
    {i \in 1..Len(log[c]) : log[c][i].ev = "callback" /\ log[c][i].id = id}
CallbacksFor(seq, id) ==
    {i \in 1..Len(seq) : IsCallbackInvocation(seq[i]) /\ seq[i].id = id}
RequestsRun(c) == {i \in 1..Len(log[c]) : log[c][i].ev = "handler"}

\* C20: with an "app" and a "web" channel on each of the two windows, a
\* channel invokes a continuation of one of its queries only for a
\* Response its own peer (the channel of the same scope) produced, invokes
\* a callback only for a CallbackInvocation its own peer produced, and
\* gives up the table entry of a query only when its own peer has answered
\* it; and a handler runs only for a Request or Notification that the peer
\* of the same scope sent under that scope.
C20_ScopeIsolation ==
    \A c \in Chan :
        /\ \A id \in Queried(c) :
              /\ Cardinality(Continuations(c, id))
                     <= Cardinality(ResponsesFor(Sends(PeerChan(c)), id))
              /\ Cardinality(CallbacksRun(c, id))
                     <= Cardinality(CallbacksFor(Sends(PeerChan(c)), id))
              /\ id \notin DOMAIN tranTbl[c] => ResponsesFor(Sends(PeerChan(c)), id) # {}
        /\ \A i \in RequestsRun(c) :
              \E k \in 1..Len(Sends(PeerChan(c))) :
                  /\ Sends(PeerChan(c))[k].id = log[c][i].id
                  /\ Sends(PeerChan(c))[k].method = c[2] \o "::" \o log[c][i].name

====
